---- MODULE Spec2Model ----
(***************************************************************************)
(* Model of the "Triangulate to Target" modal operator                     *)
(* (src/triangulate_to_target.py): invoke, modal, finish, process_face and *)
(* the measurement and geometry helpers they call.                         *)
(*                                                                         *)
(* Units.  Vertex coordinates live on an integer grid, so every            *)
(* "length < 1e-7" test of the source is the test "the vector is zero" and *)
(* the coplanarity test "abs(normal.dot(..)) > 1e-5" is "the dot product   *)
(* is not zero".  Lengths are compared through their squares.  Both        *)
(* objects carry the identity world matrix.                                *)
(*                                                                         *)
(* Floats.  A measured distance is a Python float.  Here a float is a      *)
(* number of quanta (the smallest positive float) with a significand of    *)
(* Precision bits, 1.0 is 2^(Precision-1) quanta, and "distance *= 1.1"    *)
(* multiplies by the float nearest to 1.1 and rounds the product to the    *)
(* nearest float, ties to even, as IEEE 754 multiplication does.           *)
(***************************************************************************)
EXTENDS Integers, Sequences, FiniteSets, TLC

\* ---------------------------------------------------------------- bounds
MaxFaces == 2        \* faces in the active mesh
MaxDist == 2         \* largest distance a target query reports
MaxSetting == 1      \* largest max_distance setting tried
MaxThreshold == 1    \* largest planarity_threshold setting tried
Precision == 4       \* bits in the significand of a float
MaxRaw == 20         \* largest raw distance, in quanta, penalised on its own

\* ------------------------------------------------------------- constants
Inf == -1            \* float('inf')

VARIABLES
    active_object,        \* type of context.active_object: "NONE", "MESH", "CURVE"
    target_object,        \* props.target_object is set
    mode,                 \* obj.mode: "EDIT" or "OBJECT"
    max_distance,         \* props.max_distance
    planarity_threshold,  \* props.planarity_threshold
    data_faces,           \* obj.data: the faces of the mesh datablock
    data_edges,           \* obj.data: the diagonal edges of the mesh datablock
    bm,                   \* self.bm: "none", "live" or "freed"
    bm_faces,             \* self.bm.faces
    bm_edges,             \* the diagonal edges connect_verts added to self.bm
    quad_faces,           \* self.quad_faces: indices into bm_faces
    current_face_index,   \* self.current_face_index
    draw_handle,          \* self._handle is set
    timer,                \* self._timer is set
    modal_handler,        \* the operator is registered as a modal handler
    debug,                \* scene.triangulate_debug: debug_line1..debug_line4
    report,               \* the last self.report message
    ret,                  \* the operator's state: "NONE" before invoke, then the last
                          \* return value of invoke / modal other than PASS_THROUGH
    outcome,              \* per face of bm_faces: how process_face left it
    evals,                \* the faces process_face was called on, in call order
    measured,             \* what the last process_face call measured
    probe,                \* one diagonal measured under two max_distance settings
    penalty,              \* the two raw distances of one face, penalised and compared
    updates,              \* the number of lines of every update_debug_info call so far
    ticks                 \* the TIMER and MOUSEMOVE events modal has handled

vars == <<active_object, target_object, mode, max_distance, planarity_threshold,
          data_faces, data_edges, bm, bm_faces, bm_edges, quad_faces,
          current_face_index, draw_handle, timer, modal_handler, debug, report,
          ret, outcome, evals, measured, probe, penalty, updates, ticks>>

\* ------------------------------------------------------------ vectors
Add(a, b) == <<a[1] + b[1], a[2] + b[2], a[3] + b[3]>>
Sub(a, b) == <<a[1] - b[1], a[2] - b[2], a[3] - b[3]>>
Dot(a, b) == a[1] * b[1] + a[2] * b[2] + a[3] * b[3]
Cross(a, b) == <<a[2] * b[3] - a[3] * b[2],
                 a[3] * b[1] - a[1] * b[3],
                 a[1] * b[2] - a[2] * b[1]>>
Len2(a) == Dot(a, a)

\* IEEE comparison on [0, inf]
DistLE(a, b) == b = Inf \/ (a # Inf /\ a <= b)
DistGT(a, b) == ~DistLE(a, b)

\* ------------------------------------------------------------ the mesh
\* A face lists its vertices (identities 1..n) in winding order; co gives the
\* position of each vertex.  inverted: the winding disagrees with the outside
\* direction bmesh.ops.recalc_face_normals computes for the face.
Quad(c1, c2, c3, c4, sel, inv) ==
    [verts |-> <<1, 2, 3, 4>>, co |-> <<c1, c2, c3, c4>>, select |-> sel, inverted |-> inv]

Warped == Quad(<<0, 0, 0>>, <<2, 0, 0>>, <<2, 2, 4>>, <<0, 2, 0>>, TRUE, FALSE)
Square == Quad(<<0, 0, 0>>, <<2, 0, 0>>, <<2, 2, 0>>, <<0, 2, 0>>, FALSE, FALSE)
ZeroEdge == Quad(<<0, 0, 0>>, <<4, 0, 0>>, <<4, 4, 0>>, <<4, 4, 0>>, TRUE, FALSE)
Collinear == Quad(<<0, 0, 0>>, <<2, 0, 0>>, <<4, 0, 0>>, <<6, 0, 0>>, TRUE, FALSE)
Trapezoid == Quad(<<0, 0, 0>>, <<4, 0, 0>>, <<2, 2, 0>>, <<0, 2, 0>>, TRUE, FALSE)
WarpedInward == Quad(<<0, 0, 0>>, <<0, 2, 0>>, <<2, 2, 4>>, <<2, 0, 0>>, TRUE, TRUE)
Triangle ==
    [verts |-> <<1, 2, 3>>, co |-> <<<<0, 0, 0>>, <<2, 0, 0>>, <<0, 2, 4>>>>,
     select |-> TRUE, inverted |-> FALSE]

FacePool == <<Warped, Square, ZeroEdge, Collinear, Trapezoid, WarpedInward, Triangle>>

\* the meshes tried: the faces of FacePool at the chosen positions, in pool order
RECURSIVE Pick(_, _)
Pick(S, from) ==
    IF from > Len(FacePool) THEN <<>>
    ELSE IF from \in S THEN <<FacePool[from]>> \o Pick(S, from + 1)
    ELSE Pick(S, from + 1)

Meshes == {Pick(S, 1) : S \in {T \in SUBSET (1..Len(FacePool)) : Cardinality(T) <= MaxFaces}}

\* position of the k-th vertex of the face (verts[k-1].co)
Co(face, k) == face.co[face.verts[k]]

\* face.edges: edge k joins the vertices at positions k and Succ(face, k)
Succ(face, k) == (k % Len(face.verts)) + 1

\* face.normal of a quad (the cross product of its diagonals), not normalised;
\* reversing the winding negates it
FaceNormal(face) == Cross(Sub(Co(face, 1), Co(face, 3)), Sub(Co(face, 2), Co(face, 4)))

\* face.calc_area() is half the length of the sum of v_i x v_(i+1)
RECURSIVE NewellSum(_, _)
NewellSum(face, k) ==
    IF k > Len(face.verts) THEN <<0, 0, 0>>
    ELSE Add(Cross(Co(face, k), Co(face, Succ(face, k))), NewellSum(face, k + 1))

is_degenerate_face(face) ==
    IF Len2(NewellSum(face, 1)) = 0 \/ Len2(FaceNormal(face)) = 0 THEN TRUE
    ELSE LET v1 == Sub(Co(face, 2), Co(face, 1))
             v2 == Sub(Co(face, 3), Co(face, 1))
         IN  Len2(Cross(v1, v2)) = 0

has_self_intersection(face, vert1, vert2) ==
    LET diagonal == Sub(face.co[vert2], face.co[vert1])
    IN  \E k \in 1..Len(face.verts) :
            /\ face.verts[k] \notin {vert1, vert2}
            /\ face.verts[Succ(face, k)] \notin {vert1, vert2}
            /\ Len2(Cross(diagonal, Sub(Co(face, Succ(face, k)), Co(face, k)))) = 0

is_nearly_coplanar(face) ==
    LET normal == FaceNormal(face)
    IN  \A k \in 2..Len(face.verts) : Dot(normal, Sub(Co(face, k), Co(face, 1))) = 0

has_zero_length_edges(face) ==
    \E k \in 1..Len(face.verts) : Len2(Sub(Co(face, k), Co(face, Succ(face, k)))) = 0

\* BM_face_normal_flip: the winding is reversed, the first vertex stays first
FlipFace(face) ==
    LET n == Len(face.verts)
    IN  [face EXCEPT !.verts = [k \in 1..n |-> IF k = 1 THEN face.verts[1]
                                               ELSE face.verts[n + 2 - k]],
                     !.inverted = FALSE]

\* bmesh.ops.recalc_face_normals(bm, faces=bm.faces): every face whose winding
\* disagrees with the computed outside direction is flipped
recalc_face_normals(faces) ==
    [f \in 1..Len(faces) |-> IF faces[f].inverted THEN FlipFace(faces[f]) ELSE faces[f]]

\* ------------------------------------------------------ the target surface
\* One answer of the target's BVH tree (find_nearest or ray_cast): a miss, or a
\* hit with its distance and the surface normal there.
Miss == [hit |-> FALSE, dist |-> 0, normal |-> <<0, 0, 0>>]
TargetNormals == {<<0, 0, 1>>, <<0, 0, -1>>}
Hits == [hit : {TRUE}, dist : 1..MaxDist, normal : TargetNormals]

\* The answers to the two queries made for one diagonal.  A ray hit is a point
\* of the surface, so it is never nearer than the nearest point, and an empty
\* surface answers neither query.
Queries ==
    {q \in [near : Hits \cup {Miss}, ray : Hits \cup {Miss}] :
        q.ray.hit => (q.near.hit /\ q.near.dist <= q.ray.dist)}

\* ------------------------------------------------------------ status lines
update_debug_info(lines, info_lines) ==
    [i \in 1..4 |-> IF i <= Len(info_lines) THEN info_lines[i] ELSE lines[i]]

Fmt(d) == IF d = Inf THEN "inf" ELSE ToString(d)

WarnDegenerate == "Warning: Degenerate face detected (zero area or invalid normal)"
WarnZeroLength == "Warning: Zero-length edges detected"
WarnSelfIntersect == "Warning: Self-intersecting diagonal detected"
WarnNoSurface == "Warning: No valid front-facing surface found on target"
Warnings == {WarnDegenerate, WarnZeroLength, WarnSelfIntersect, WarnNoSurface}

\* ------------------------------------------------------------------ floats
RECURSIVE BitLength(_)
BitLength(n) == IF n = 0 THEN 0 ELSE 1 + BitLength(n \div 2)

\* the spacing of the floats at n
Ulp(n) == IF BitLength(n) <= Precision THEN 1 ELSE 2 ^ (BitLength(n) - Precision)

\* the floats up to n, in quanta
Floats(n) == {x \in 1..n : x % Ulp(x) = 0}

\* num / den rounded to the nearest float, ties to the even significand
RoundNearestEven(num, den) ==
    LET u == Ulp(num \div den)
        lo == ((num \div den) \div u) * u
        hi == lo + u
        twice_rest == 2 * (num - lo * den)
    IN  IF twice_rest < u * den THEN lo
        ELSE IF twice_rest > u * den THEN hi
        ELSE IF (lo \div u) % 2 = 0 THEN lo ELSE hi

\* the float 1.0, and the significand of the float literal 1.1
One == 2 ^ (Precision - 1)
CoplanarFactor == RoundNearestEven(11 * One, 10)

\* faulty variant: the product is not rounded, its high bits are cut off
PenalisedDistanceWrapped(face, distance) ==
    IF is_nearly_coplanar(face)
    THEN ((distance * CoplanarFactor) \div One) % (2 ^ Precision)
    ELSE distance

\* if is_nearly_coplanar(face): distance *= 1.1
PenalisedDistance(face, distance) ==
    IF is_nearly_coplanar(face)
    THEN RoundNearestEven(distance * CoplanarFactor, One)
    ELSE distance

\* ------------------------------------------------------------- measurement
\* results: the distances of the front-facing answers, nearest first
FrontFacing(q, face_normal) ==
    (IF q.near.hit /\ Dot(face_normal, q.near.normal) > 0 THEN <<q.near.dist>> ELSE <<>>)
    \o (IF q.ray.hit /\ Dot(face_normal, q.ray.normal) > 0 THEN <<q.ray.dist>> ELSE <<>>)

\* min(results, key=distance)
MinDistance(results) ==
    CHOOSE d \in {results[i] : i \in 1..Len(results)} :
        \A i \in 1..Len(results) : d <= results[i]

\* faulty variant: the max_distance comparison is reversed
get_closest_point_on_targetReversed(q, face_normal, max_dist) ==
    LET results == FrontFacing(q, face_normal)
    IN  IF results = <<>> THEN [found |-> FALSE, dist |-> 0]
        ELSE LET min_distance == MinDistance(results)
             IN  IF DistGT(max_dist, min_distance) /\ DistGT(max_dist, 0)
                 THEN [found |-> FALSE, dist |-> 0]
                 ELSE [found |-> TRUE, dist |-> min_distance]

\* The point returned is stood for by its distance; found = FALSE is None.
get_closest_point_on_target(q, face_normal, max_dist) ==
    LET results == FrontFacing(q, face_normal)
    IN  IF results = <<>> THEN [found |-> FALSE, dist |-> 0]
        ELSE LET min_distance == MinDistance(results)
             IN  IF DistGT(min_distance, max_dist) /\ DistGT(max_dist, 0)
                 THEN [found |-> FALSE, dist |-> 0]
                 ELSE [found |-> TRUE, dist |-> min_distance]

\* The part of measure_diagonal_distance that follows the geometry guards, for
\* one pair of answers q of the target: the distance (in quanta, or Inf), the
\* status lines as it leaves them, and the warning it wrote ("" for none).
MeasureAt(lines, face, vert1, vert2, max_dist, q) ==
    LET diagonal_center2 == Add(face.co[vert1], face.co[vert2])
        closest_point == get_closest_point_on_target(q, FaceNormal(face), max_dist)
    IN  IF ~closest_point.found
        THEN [distance |-> Inf, debug |-> update_debug_info(lines, <<WarnNoSurface>>),
              warning |-> WarnNoSurface, queried |-> TRUE, wrote |-> 1]
        ELSE
          LET distance == PenalisedDistance(face, closest_point.dist * One)
          IN  [distance |-> distance,
               debug |-> update_debug_info(lines,
                   <<"World center: " \o ToString(diagonal_center2) \o "/2",
                     "Closest point: at " \o ToString(closest_point.dist),
                     "Distance: " \o Fmt(distance)>>),
               warning |-> "", queried |-> TRUE, wrote |-> 3]

\* measure_diagonal_distance: the results the call can produce, one for every
\* pair of answers the target can give.  queried: the target was queried;
\* wrote: the number of lines of its update_debug_info call, 0 for no call.
measure_diagonal_distance(lines, face, vert1, vert2, target_obj, max_dist) ==
    IF ~target_obj
    THEN {[distance |-> Inf, debug |-> lines, warning |-> "", queried |-> FALSE,
           wrote |-> 0]}
    ELSE IF is_degenerate_face(face)
    THEN {[distance |-> Inf, debug |-> update_debug_info(lines, <<WarnDegenerate>>),
           warning |-> WarnDegenerate, queried |-> FALSE, wrote |-> 1]}
    ELSE IF has_zero_length_edges(face)
    THEN {[distance |-> Inf, debug |-> update_debug_info(lines, <<WarnZeroLength>>),
           warning |-> WarnZeroLength, queried |-> FALSE, wrote |-> 1]}
    ELSE IF has_self_intersection(face, vert1, vert2)
    THEN {[distance |-> Inf, debug |-> update_debug_info(lines, <<WarnSelfIntersect>>),
           warning |-> WarnSelfIntersect, queried |-> FALSE, wrote |-> 1]}
    ELSE {MeasureAt(lines, face, vert1, vert2, max_dist, q) : q \in Queries}

\* the probe of a run of the operator: nothing is measured on the side
NoProbe == [phase |-> "idle", face |-> Square, vert1 |-> 1, vert2 |-> 3,
            q |-> [near |-> Miss, ray |-> Miss], low |-> 0, high |-> 0,
            first |-> Inf, second |-> Inf]

\* a run of the operator compares no distances on the side
NoPenalty == [phase |-> "idle", face |-> Square, raw_02 |-> 1, raw_13 |-> 1,
              dist_02 |-> 1, dist_13 |-> 1, selected |-> "none"]

\* ------------------------------------------------------------ process_face
\* 4 * center_distance^2
CenterDistSq4(face) ==
    Len2(Sub(Add(Co(face, 1), Co(face, 3)), Add(Co(face, 2), Co(face, 4))))

\* faulty variant: the comparison is strict, so center_distance == threshold is measured
KeepAsQuadStrict(face, threshold) == CenterDistSq4(face) < 4 * threshold * threshold

\* center_distance <= props.planarity_threshold
KeepAsQuad(face, threshold) == CenterDistSq4(face) <= 4 * threshold * threshold

\* props.max_distance if props.max_distance > 0 else float('inf')
EffectiveMaxDistance(setting) == IF setting > 0 THEN setting ELSE Inf

\* faulty variant: dist_02 < dist_13, so a tie goes to diagonal 1-3
SelectDiagonalStrict(dist_02, dist_13) ==
    IF DistLE(dist_02, dist_13) /\ dist_02 # dist_13 THEN "0-2" ELSE "1-3"

\* faulty variant: the larger distance wins
SelectDiagonalWorst(dist_02, dist_13) == IF DistLE(dist_13, dist_02) THEN "0-2" ELSE "1-3"

\* dist_02 <= dist_13 picks diagonal 0-2
SelectDiagonal(dist_02, dist_13) == IF DistLE(dist_02, dist_13) THEN "0-2" ELSE "1-3"

\* bmesh.ops.connect_verts(bm, verts=[a, b]) on face f
connect_verts(edges, f, a, b) == edges \cup {<<f, {a, b}>>}

NotMeasured ==
    [face |-> 0, calls |-> 0, queries |-> 0, dist_02 |-> Inf, dist_13 |-> Inf,
     warnings |-> {}, normal |-> <<0, 0, 0>>]

\* debug_lines of process_face: for a kept face, between the two measurements
\* and for a split face
KeepInfo(head, face) ==
    <<head,
      "Diagonal center distance: sqrt(" \o ToString(CenterDistSq4(face)) \o ")/2",
      "Below threshold: " \o ToString(planarity_threshold),
      "Keeping as quad">>

\* faulty variant: only the head line is written between the measurements
TestingInfoShort(head, face, dist_02) == <<head>>

TestingInfo(head, face, dist_02) ==
    <<head, "Testing diagonal 0-2", "Distance: " \o Fmt(dist_02),
      "Center dist: sqrt(" \o ToString(CenterDistSq4(face)) \o ")/2">>

SelectedInfo(head, face, selected_diagonal) ==
    <<head,
      "Center distance: sqrt(" \o ToString(CenterDistSq4(face)) \o ")/2",
      "Above threshold: " \o ToString(planarity_threshold),
      "Selected: " \o selected_diagonal>>

\* the status lines process_face writes between the two measurements
TestingLines(lines, head, face, dist_02) ==
    update_debug_info(lines, TestingInfo(head, face, dist_02))

\* process_face after the two measurements m02, m13: the face is split along
\* the selected diagonal, the normals are recalculated, the mesh is written back
SplitFace(f, head, m02, m13) ==
    LET face == bm_faces[f]
        verts == face.verts
        selected_diagonal == SelectDiagonal(m02.distance, m13.distance)
        edges == IF selected_diagonal = "0-2"
                 THEN connect_verts(bm_edges, f, verts[1], verts[3])
                 ELSE connect_verts(bm_edges, f, verts[2], verts[4])
        faces == recalc_face_normals(bm_faces)
    IN  [debug |-> update_debug_info(m13.debug, SelectedInfo(head, face, selected_diagonal)),
         updates |-> (IF m02.wrote > 0 THEN <<m02.wrote>> ELSE <<>>)
                     \o <<Len(TestingInfo(head, face, m02.distance))>>
                     \o (IF m13.wrote > 0 THEN <<m13.wrote>> ELSE <<>>)
                     \o <<Len(SelectedInfo(head, face, selected_diagonal))>>,
         faces |-> faces, edges |-> edges,
         data_faces |-> IF mode = "EDIT" THEN data_faces ELSE faces,
         data_edges |-> IF mode = "EDIT" THEN data_edges ELSE edges,
         outcome |-> IF selected_diagonal = "0-2" THEN "cut-A" ELSE "cut-B",
         measured |->
             [face |-> f, calls |-> 2,
              queries |-> (IF m02.queried THEN 1 ELSE 0) + (IF m13.queried THEN 1 ELSE 0),
              dist_02 |-> m02.distance, dist_13 |-> m13.distance,
              warnings |-> {m02.warning, m13.warning} \ {""},
              normal |-> FaceNormal(face)]]

\* process_face on face f of self.bm: the results the call can produce (what it
\* leaves in the status lines, in self.bm and in obj.data, and the lengths of
\* its update_debug_info calls in call order), one for every way the target can
\* answer its queries.
process_face(f) ==
    LET face == bm_faces[f]
        verts == face.verts
        max_dist == EffectiveMaxDistance(max_distance)
        head == "Face: " \o ToString(current_face_index + 1) \o "/" \o ToString(Len(quad_faces))
    IN  IF KeepAsQuad(face, planarity_threshold)
        THEN {[debug |-> update_debug_info(debug, KeepInfo(head, face)),
               updates |-> <<Len(KeepInfo(head, face))>>,
               faces |-> bm_faces, edges |-> bm_edges, data_faces |-> data_faces,
               data_edges |-> data_edges, outcome |-> "keep",
               measured |-> [NotMeasured EXCEPT !.face = f]]}
        ELSE UNION {
               {SplitFace(f, head, m02, m13) :
                    m13 \in measure_diagonal_distance(
                                TestingLines(m02.debug, head, face, m02.distance),
                                face, verts[2], verts[4], target_object, max_dist)} :
               m02 \in measure_diagonal_distance(debug, face, verts[1], verts[3],
                                                 target_object, max_dist)}

\* ------------------------------------------------------------ the operator
Init ==
    /\ active_object \in {"NONE", "MESH", "CURVE"}
    /\ target_object \in BOOLEAN
    /\ mode \in {"EDIT", "OBJECT"}
    /\ max_distance \in 0..MaxSetting
    /\ planarity_threshold \in 0..MaxThreshold
    /\ data_faces \in Meshes
    \* an object that is no mesh has no faces and no edit mode
    /\ active_object # "MESH" => (data_faces = <<>> /\ mode = "OBJECT")
    /\ data_edges = {}
    /\ bm = "none"
    /\ bm_faces = <<>>
    /\ bm_edges = {}
    /\ quad_faces = <<>>
    /\ current_face_index = 0
    /\ draw_handle = FALSE
    /\ timer = FALSE
    /\ modal_handler = FALSE
    /\ debug = <<"", "", "", "">>
    /\ report = ""
    /\ ret = "NONE"
    /\ outcome = [f \in 1..Len(data_faces) |-> "none"]
    /\ evals = <<>>
    /\ measured = NotMeasured
    /\ probe = NoProbe
    /\ penalty = NoPenalty
    /\ updates = <<>>
    /\ ticks = 0

\* [f for f in bm.faces if len(f.verts) == 4 (and f.select)], as indices
RECURSIVE QuadFaces(_, _, _)
QuadFaces(faces, is_edit_mode, from) ==
    IF from > Len(faces) THEN <<>>
    ELSE IF Len(faces[from].verts) = 4 /\ (is_edit_mode => faces[from].select)
    THEN <<from>> \o QuadFaces(faces, is_edit_mode, from + 1)
    ELSE QuadFaces(faces, is_edit_mode, from + 1)

\* faulty variant: the target check is missing
InvokeErrorNoTargetCheck(active, target) ==
    IF active # "MESH" THEN "ERROR: No active mesh object" ELSE ""

\* the configuration checks of invoke: the error reported, "" when it passes
InvokeError(active, target) ==
    IF active # "MESH" THEN "ERROR: No active mesh object"
    ELSE IF ~target THEN "ERROR: No target object selected"
    ELSE ""

invoke ==
    /\ ret = "NONE"
    /\ IF InvokeError(active_object, target_object) # ""
       THEN /\ report' = InvokeError(active_object, target_object)
            /\ ret' = "CANCELLED"
            /\ UNCHANGED <<bm, bm_faces, quad_faces, draw_handle, timer, modal_handler>>
       ELSE LET is_edit_mode == mode = "EDIT"
                quads == QuadFaces(data_faces, is_edit_mode, 1)
            IN  /\ bm_faces' = data_faces
                /\ quad_faces' = quads
                /\ IF quads = <<>>
                   THEN /\ report' = "WARNING: No quad faces found"
                                     \o (IF is_edit_mode THEN " (in selection)" ELSE "")
                        /\ bm' = IF is_edit_mode THEN "live" ELSE "freed"
                        /\ ret' = "CANCELLED"
                        /\ UNCHANGED <<draw_handle, timer, modal_handler>>
                   ELSE /\ bm' = "live"
                        /\ draw_handle' = TRUE
                        /\ timer' = TRUE
                        /\ modal_handler' = TRUE
                        /\ ret' = "RUNNING_MODAL"
                        /\ UNCHANGED report
    /\ UNCHANGED <<active_object, target_object, mode, max_distance, planarity_threshold,
                   data_faces, data_edges, bm_edges, current_face_index, debug,
                   outcome, evals, measured, probe, penalty, updates, ticks>>

\* faulty variant: only three lines are cleared
ClearedLinesShort == <<"", "", "">>

\* the lines finish passes to update_debug_info
ClearedLines == <<"", "", "", "">>

\* faulty variant: the timer is not removed
finishKeepsTimer ==
    /\ IF mode = "EDIT"
       THEN UNCHANGED <<data_faces, data_edges, bm>>
       ELSE /\ data_faces' = bm_faces
            /\ data_edges' = bm_edges
            /\ bm' = "freed"
    /\ draw_handle' = FALSE
    /\ UNCHANGED timer
    /\ debug' = update_debug_info(debug, ClearedLines)
    /\ updates' = updates \o <<Len(ClearedLines)>>

\* finish: write the mesh back, remove the draw handler and the timer, clear
\* the status lines
finish ==
    /\ IF mode = "EDIT"
       THEN UNCHANGED <<data_faces, data_edges, bm>>
       ELSE /\ data_faces' = bm_faces
            /\ data_edges' = bm_edges
            /\ bm' = "freed"
    /\ draw_handle' = FALSE
    /\ timer' = FALSE
    /\ debug' = update_debug_info(debug, ClearedLines)
    /\ updates' = updates \o <<Len(ClearedLines)>>

\* faulty variant: the index skips a face
NextIndexSkip(i) == i + 2

\* self.current_face_index += 1
NextIndex(i) == i + 1

EventTypes == {"ESC", "TIMER", "MOUSEMOVE", "LEFTMOUSE"}

\* modal, on one event; FINISHED and CANCELLED end the modal handler, and
\* PASS_THROUGH (every other return) leaves the operator running
modal(event) ==
    /\ modal_handler
    /\ IF event = "ESC"
       THEN /\ finish
            /\ ret' = "CANCELLED"
            /\ modal_handler' = FALSE
            /\ UNCHANGED <<bm_faces, bm_edges, current_face_index, outcome, evals, measured,
                           ticks>>
       ELSE IF event = "TIMER" \/ event = "MOUSEMOVE"
       THEN IF current_face_index >= Len(quad_faces)
            THEN /\ finish
                 /\ ret' = "FINISHED"
                 /\ modal_handler' = FALSE
                 /\ ticks' = ticks + 1
                 /\ UNCHANGED <<bm_faces, bm_edges, current_face_index, outcome, evals,
                                measured>>
            ELSE \E r \in process_face(quad_faces[current_face_index + 1]) :
                   LET f == quad_faces[current_face_index + 1]
                   IN  /\ debug' = r.debug
                       /\ updates' = updates \o r.updates
                       /\ bm_faces' = r.faces
                       /\ bm_edges' = r.edges
                       /\ data_faces' = r.data_faces
                       /\ data_edges' = r.data_edges
                       /\ outcome' = [outcome EXCEPT ![f] = r.outcome]
                       /\ evals' = Append(evals, f)
                       /\ measured' = r.measured
                       /\ current_face_index' = NextIndex(current_face_index)
                       /\ ticks' = ticks + 1
                       /\ UNCHANGED <<ret, bm, draw_handle, timer, modal_handler>>
       ELSE UNCHANGED <<data_faces, data_edges, bm, bm_faces, bm_edges,
                       current_face_index, draw_handle, timer, modal_handler, debug,
                       outcome, evals, measured, ret, updates, ticks>>
    /\ UNCHANGED <<active_object, target_object, mode, max_distance, planarity_threshold,
                   quad_faces, report, probe, penalty>>

Next ==
    \/ invoke
    \/ \E event \in EventTypes : modal(event)

Spec == Init /\ [][Next]_vars

\* The timer invoke registers (event_timer_add) keeps delivering TIMER events
\* for as long as the operator is a modal handler.  TimerEvent is a step in
\* which modal handles a TIMER or MOUSEMOVE event: among the steps of Next,
\* exactly those that count a tick, possible whenever the operator is a modal
\* handler.
TimerEvent == modal_handler /\ ticks' = ticks + 1

SpecLive == Init /\ [][Next]_vars /\ WF_ticks(TimerEvent)

\* ------------------------------------------- the measurement on its own
\* One diagonal of a sound face is measured against one pair of target answers
\* under the setting low and then under the setting high, where high searches
\* at least as far as low (0 searches without limit).
SearchesAtLeastAsFar(high, low) == high = 0 \/ (low > 0 /\ high >= low)

Probes ==
    {p \in [phase : {"ask"}, face : {Warped, Trapezoid, WarpedInward},
            vert1 : {1, 2}, vert2 : {3, 4}, q : Queries,
            low : 0..MaxSetting, high : 0..MaxSetting,
            first : {Inf}, second : {Inf}] :
        /\ p.vert2 = p.vert1 + 2
        /\ SearchesAtLeastAsFar(p.high, p.low)}

InitMeasure ==
    /\ active_object = "MESH"
    /\ target_object = TRUE
    /\ mode = "OBJECT"
    /\ max_distance = 0
    /\ planarity_threshold = 0
    /\ data_faces = <<>>
    /\ data_edges = {}
    /\ bm = "none"
    /\ bm_faces = <<>>
    /\ bm_edges = {}
    /\ quad_faces = <<>>
    /\ current_face_index = 0
    /\ draw_handle = FALSE
    /\ timer = FALSE
    /\ modal_handler = FALSE
    /\ debug = <<"", "", "", "">>
    /\ report = ""
    /\ ret = "NONE"
    /\ outcome = <<>>
    /\ evals = <<>>
    /\ measured = NotMeasured
    /\ probe \in Probes
    /\ penalty = NoPenalty
    /\ updates = <<>>
    /\ ticks = 0

\* the state of the operator, which a measurement on its own leaves alone
operator_vars ==
    <<active_object, target_object, mode, max_distance, planarity_threshold,
      data_faces, data_edges, bm, bm_faces, bm_edges, quad_faces,
      current_face_index, draw_handle, timer, modal_handler, debug, report,
      ret, outcome, evals, measured, updates, ticks>>

MeasureLow ==
    /\ probe.phase = "ask"
    /\ probe' = [probe EXCEPT
           !.phase = "low",
           !.first = MeasureAt(debug, probe.face, probe.face.verts[probe.vert1],
                               probe.face.verts[probe.vert2],
                               EffectiveMaxDistance(probe.low), probe.q).distance]
    /\ UNCHANGED <<operator_vars, penalty>>

MeasureHigh ==
    /\ probe.phase = "low"
    /\ probe' = [probe EXCEPT
           !.phase = "done",
           !.second = MeasureAt(debug, probe.face, probe.face.verts[probe.vert1],
                                probe.face.verts[probe.vert2],
                                EffectiveMaxDistance(probe.high), probe.q).distance]
    /\ UNCHANGED <<operator_vars, penalty>>

NextMeasure == MeasureLow \/ MeasureHigh

SpecMeasure == InitMeasure /\ [][NextMeasure]_vars

\* ----------------------------------------------- the penalty on its own
\* The raw distances measured for the two diagonals of one sound face, any two
\* floats up to MaxRaw, go through the penalty of measure_diagonal_distance
\* and the comparison of process_face.
Penalties ==
    [phase : {"raw"}, face : {Trapezoid, Warped, WarpedInward},
     raw_02 : Floats(MaxRaw), raw_13 : Floats(MaxRaw),
     dist_02 : {1}, dist_13 : {1}, selected : {"none"}]

InitPenalty ==
    /\ active_object = "MESH"
    /\ target_object = TRUE
    /\ mode = "OBJECT"
    /\ max_distance = 0
    /\ planarity_threshold = 0
    /\ data_faces = <<>>
    /\ data_edges = {}
    /\ bm = "none"
    /\ bm_faces = <<>>
    /\ bm_edges = {}
    /\ quad_faces = <<>>
    /\ current_face_index = 0
    /\ draw_handle = FALSE
    /\ timer = FALSE
    /\ modal_handler = FALSE
    /\ debug = <<"", "", "", "">>
    /\ report = ""
    /\ ret = "NONE"
    /\ outcome = <<>>
    /\ evals = <<>>
    /\ measured = NotMeasured
    /\ probe = NoProbe
    /\ penalty \in Penalties
    /\ updates = <<>>
    /\ ticks = 0

PenaliseAndSelect ==
    /\ penalty.phase = "raw"
    /\ LET dist_02 == PenalisedDistance(penalty.face, penalty.raw_02)
           dist_13 == PenalisedDistance(penalty.face, penalty.raw_13)
       IN  penalty' = [penalty EXCEPT !.phase = "selected",
                                      !.dist_02 = dist_02,
                                      !.dist_13 = dist_13,
                                      !.selected = SelectDiagonal(dist_02, dist_13)]
    /\ UNCHANGED <<operator_vars, probe>>

NextPenalty == PenaliseAndSelect

SpecPenalty == InitPenalty /\ [][NextPenalty]_vars

\* ================================================================ claims
\* the diagonal edges of the mesh the user sees: the edit mesh in edit mode,
\* the mesh datablock in object mode
MeshEdges == IF mode = "EDIT" THEN bm_edges ELSE data_edges

\* the edge connect_verts adds for diagonal 0-2 / 1-3 of face f
DiagonalA(f) == <<f, {bm_faces[f].verts[1], bm_faces[f].verts[3]}>>
DiagonalB(f) == <<f, {bm_faces[f].verts[2], bm_faces[f].verts[4]}>>

\* the faces process_face has been called on
Processed == {f \in 1..Len(bm_faces) : outcome[f] # "none"}

\* C1: a processed face that is degenerate or has a zero-length edge is never
\* cut: it has no diagonal edge and its outcome is neither cut-A nor cut-B.
C1_DegenerateFaceNotCut ==
    \A f \in Processed :
        (is_degenerate_face(bm_faces[f]) \/ has_zero_length_edges(bm_faces[f]))
        => /\ outcome[f] \notin {"cut-A", "cut-B"}
           /\ ~\E e \in bm_edges : e[1] = f

\* C2: a processed face whose center distance exceeds the threshold is cut
\* along diagonal 0-2 iff dist(0-2) <= dist(1-3), with inf <= inf; so on a tie,
\* both unbounded included, it is cut along 0-2 and never along 1-3.
C2_TieGoesToDiagonalA ==
    \A f \in Processed :
        (measured.face = f /\ CenterDistSq4(bm_faces[f]) > 4 * planarity_threshold * planarity_threshold)
        => LET a == measured.dist_02
               b == measured.dist_13
               a_le_b == b = Inf \/ (a # Inf /\ a <= b)
           IN  /\ measured.calls = 2
               /\ a_le_b => (outcome[f] = "cut-A" /\ DiagonalA(f) \in bm_edges
                             /\ DiagonalB(f) \notin bm_edges)
               /\ ~a_le_b => (outcome[f] = "cut-B" /\ DiagonalB(f) \in bm_edges
                              /\ DiagonalA(f) \notin bm_edges)

\* C2 witness: both diagonals of a sound face measured unbounded, cut along 0-2
C2_Witness ==
    /\ measured.face # 0
    /\ measured.queries = 2
    /\ measured.dist_02 = Inf
    /\ measured.dist_13 = Inf
    /\ outcome[measured.face] = "cut-A"

\* C3: a processed face whose center distance is at most the threshold is kept
\* as a quad: no diagonal edge, no measurement and no target query, the
\* boundary case center distance = threshold included.
C3_PlanarFaceKept ==
    \A f \in Processed :
        CenterDistSq4(bm_faces[f]) <= 4 * planarity_threshold * planarity_threshold
        => /\ outcome[f] = "keep"
           /\ ~\E e \in bm_edges : e[1] = f
           /\ measured.face = f => (measured.calls = 0 /\ measured.queries = 0)

\* C3 witness: the boundary case, a positive threshold met exactly
C3_Witness ==
    /\ measured.face # 0
    /\ planarity_threshold > 0
    /\ CenterDistSq4(bm_faces[measured.face]) = 4 * planarity_threshold * planarity_threshold
    /\ outcome[measured.face] = "keep"

\* the run was cancelled by ESC (not refused by invoke)
EscCancelled == ret = "CANCELLED" /\ quad_faces # <<>>

\* C4: after ESC every cut applied before it is in the mesh, the faces at and
\* after the current index are unprocessed and nothing can process them (the
\* modal handler and the timer are gone), and the four status lines are empty.
C4_CancelKeepsCuts ==
    EscCancelled
    => /\ \A f \in Processed :
              /\ outcome[f] = "cut-A" => DiagonalA(f) \in MeshEdges
              /\ outcome[f] = "cut-B" => DiagonalB(f) \in MeshEdges
       /\ \A i \in 1..Len(quad_faces) :
              i > current_face_index => outcome[quad_faces[i]] = "none"
       /\ Len(evals) = current_face_index
       /\ ~modal_handler /\ ~timer
       /\ \A i \in 1..4 : debug[i] = ""

\* C4 witness: cancelled in mid-batch, one face cut and one face left
C4_Witness ==
    /\ EscCancelled
    /\ current_face_index < Len(quad_faces)
    /\ \E f \in Processed : outcome[f] \in {"cut-A", "cut-B"}

\* C5: with no active mesh object or no target object, invoke reports an error
\* and returns CANCELLED; no face is processed, the mesh has no new edge, no
\* BMesh is built and no timer, draw handler or modal handler is registered.
C5_ConfigErrorStartsNothing ==
    (ret # "NONE" /\ (active_object # "MESH" \/ ~target_object))
    => /\ ret = "CANCELLED"
       /\ report \in {"ERROR: No active mesh object", "ERROR: No target object selected"}
       /\ evals = <<>> /\ Processed = {}
       /\ bm = "none" /\ bm_edges = {} /\ data_edges = {}
       /\ ~timer /\ ~draw_handle /\ ~modal_handler

\* C5 witness: a mesh with faces, invoked without a target
C5_Witness ==
    /\ ret = "CANCELLED"
    /\ active_object = "MESH" /\ ~target_object
    /\ data_faces # <<>>
    /\ report = "ERROR: No target object selected"

\* C6: a query miss gives the unbounded distance (and a warning, no error),
\* and when exactly one diagonal of a processed face has a bounded distance,
\* that diagonal is the one cut.
C6_BoundedDiagonalWins ==
    \A f \in Processed :
        measured.face = f /\ measured.calls = 2
        => /\ (measured.dist_02 # Inf /\ measured.dist_13 = Inf)
                => (outcome[f] = "cut-A" /\ DiagonalA(f) \in bm_edges)
           /\ (measured.dist_02 = Inf /\ measured.dist_13 # Inf)
                => (outcome[f] = "cut-B" /\ DiagonalB(f) \in bm_edges)
           /\ (measured.queries = 2 /\ "Warning: No valid front-facing surface found on target"
                                         \in measured.warnings)
                => (measured.dist_02 = Inf \/ measured.dist_13 = Inf)
           /\ (measured.queries = 2 /\ measured.warnings = {})
                => (measured.dist_02 # Inf /\ measured.dist_13 # Inf)

\* C6 witness: diagonal 0-2 missed, diagonal 1-3 measured, cut along 1-3
C6_Witness ==
    /\ measured.face # 0
    /\ measured.queries = 2
    /\ measured.dist_02 = Inf
    /\ measured.dist_13 # Inf
    /\ outcome[measured.face] = "cut-B"

\* C7: when a geometry guard failed while the last face was processed, warning
\* text is still in the status lines once that processing step is over.
C7_GuardWarningStaysVisible ==
    (modal_handler /\ measured.face # 0
       /\ measured.warnings \cap {WarnDegenerate, WarnZeroLength, WarnSelfIntersect} # {})
    => \E i \in 1..4 : debug[i] \in Warnings

\* C8: the faces are processed one at a time in the order of quad_faces: the
\* faces evaluated so far are exactly the first current_face_index entries of
\* the list, in that order; every processing step evaluates the face at the
\* current index and advances the index by one; an evaluated face has one
\* outcome out of keep, cut-A, cut-B and abort, which never changes
\* afterwards, and the list itself never changes once it is built.
C8_OneFaceAtATimeInOrder ==
    /\ [](/\ Len(evals) = current_face_index
          /\ current_face_index <= Len(quad_faces)
          /\ \A i \in 1..Len(evals) : evals[i] = quad_faces[i]
          /\ \A i, j \in 1..Len(evals) : evals[i] = evals[j] => i = j
          /\ \A f \in 1..Len(outcome) :
                 IF \E i \in 1..Len(evals) : evals[i] = f
                 THEN outcome[f] \in {"keep", "cut-A", "cut-B", "abort"}
                 ELSE outcome[f] = "none")
    /\ [][/\ evals' # evals
             => /\ current_face_index < Len(quad_faces)
                /\ evals' = Append(evals, quad_faces[current_face_index + 1])
                /\ current_face_index' = current_face_index + 1
          /\ current_face_index' # current_face_index => evals' # evals
          /\ quad_faces # <<>> => quad_faces' = quad_faces
          /\ \A f \in 1..Len(outcome) :
                 outcome[f] # "none" => outcome'[f] = outcome[f]]_vars

\* C8 witness: a batch of two faces, both evaluated, finished
C8_Witness ==
    /\ ret = "FINISHED"
    /\ Len(quad_faces) = 2
    /\ evals = quad_faces
    /\ \A i \in 1..2 : outcome[quad_faces[i]] # "none"

\* C9: a step changes the mesh only by adding diagonal edges: the edge set
\* grows, a face has at most one diagonal and it joins its own vertices 0-2 or
\* 1-3, and the vertex positions, vertex order and normal of every face not
\* yet processed are what they were before the step.
C9_LaterFacesUntouched ==
    [][/\ bm_edges \subseteq bm_edges'
       /\ \A e1, e2 \in bm_edges' : e1[1] = e2[1] => e1 = e2
       /\ \A e \in bm_edges' :
              e[2] \in {{bm_faces'[e[1]].verts[1], bm_faces'[e[1]].verts[3]},
                        {bm_faces'[e[1]].verts[2], bm_faces'[e[1]].verts[4]}}
       /\ \A f \in {quad_faces[i] : i \in 1..Len(quad_faces)} :
              outcome'[f] = "none"
              => /\ bm_faces'[f].co = bm_faces[f].co
                 /\ bm_faces'[f].verts = bm_faces[f].verts
                 /\ FaceNormal(bm_faces'[f]) = FaceNormal(bm_faces[f])]_vars

\* C10: measuring the same diagonal against the same target answers with a
\* max_distance that searches at least as far (0 searches without limit)
\* gives the same distance whenever the first measurement was bounded, and a
\* measurement is unbounded only when no front-facing answer survives or when
\* max_distance is positive and the nearest surviving answer lies beyond it.
C10_MaxDistanceMonotone ==
    /\ probe.phase = "done" => (probe.first # Inf => probe.second = probe.first)
    /\ (probe.phase \in {"low", "done"} /\ probe.first = Inf)
       => LET results == FrontFacing(probe.q, FaceNormal(probe.face))
          IN  results # <<>> => (probe.low > 0 /\ MinDistance(results) > probe.low)

\* C10 witness: bounded under a positive max_distance, and the same distance
\* when the search is unlimited
C10_Witness ==
    /\ probe.phase = "done"
    /\ probe.low > 0
    /\ probe.high = 0
    /\ probe.first # Inf
    /\ probe.second = probe.first

\* C11 as stated: the penalty is applied to both distances of a face or to
\* neither, and for every pair of raw distances the diagonal selected from
\* the penalised distances is the diagonal selected from the raw ones.
C11_PenaltyKeepsSelection ==
    penalty.phase = "selected"
    => /\ penalty.raw_02 = penalty.raw_13 => penalty.dist_02 = penalty.dist_13
       /\ penalty.selected =
              (IF penalty.raw_02 <= penalty.raw_13 THEN "0-2" ELSE "1-3")

\* C11 amended: the penalty is applied to both distances of a face or to
\* neither and never reverses their order: raw dist(0-2) <= raw dist(1-3)
\* still selects 0-2 (so raw 1.0 against 1.05 stays cut-A), and a raw
\* dist(0-2) > dist(1-3) selects 1-3 unless the face is nearly coplanar and
\* the two products round to the same float, a tie, which selects 0-2.
C11_PenaltyNeverReversesOrder ==
    penalty.phase = "selected"
    => /\ penalty.raw_02 <= penalty.raw_13
            => (penalty.dist_02 <= penalty.dist_13 /\ penalty.selected = "0-2")
       /\ penalty.raw_02 > penalty.raw_13
            => /\ penalty.dist_02 >= penalty.dist_13
               /\ penalty.selected = "1-3" <=> penalty.dist_02 > penalty.dist_13
               /\ penalty.selected = "0-2"
                    => (penalty.dist_02 = penalty.dist_13
                        /\ penalty.dist_02 # penalty.raw_02)
       /\ penalty.dist_02 >= penalty.raw_02 /\ penalty.dist_13 >= penalty.raw_13
       /\ (penalty.dist_02 = penalty.dist_13) \/ (penalty.raw_02 # penalty.raw_13)

\* C11 witness: a nearly coplanar face, raw 1.0 against a larger distance,
\* both distances penalised, 0-2 selected
C11_Witness ==
    /\ penalty.phase = "selected"
    /\ penalty.raw_02 = One
    /\ penalty.raw_13 > One
    /\ penalty.dist_02 > penalty.raw_02
    /\ penalty.dist_13 > penalty.raw_13
    /\ penalty.dist_02 < penalty.dist_13
    /\ penalty.selected = "0-2"

\* The display replayed with every line marked <<u, i>>: line i of the u-th
\* update_debug_info call; update 0 is the four default lines of
\* TriangulateDebugProps.  DisplayAfter(k) is the display after k updates.
RECURSIVE DisplayAfter(_)
DisplayAfter(k) ==
    IF k = 0 THEN [i \in 1..4 |-> <<0, i>>]
    ELSE update_debug_info(DisplayAfter(k - 1), [i \in 1..updates[k] |-> <<k, i>>])

\* the lines displayed after k updates, and the lines written by then
ShownAfter(k) == {DisplayAfter(k)[i] : i \in 1..Len(DisplayAfter(k))}
WrittenAfter(k) ==
    {<<0, i>> : i \in 1..4} \cup UNION {{<<u, i>> : i \in 1..updates[u]} : u \in 1..k}

\* C12: after every status update the program has made, the display holds at
\* most 4 lines, and no line of an earlier update is still displayed while a
\* line of a later update has been dropped.
C12_OldestLinesDiscarded ==
    /\ Len(debug) <= 4
    /\ \A k \in 0..Len(updates) :
           /\ Len(DisplayAfter(k)) <= 4
           /\ \A shown \in ShownAfter(k) :
                  \A dropped \in WrittenAfter(k) \ ShownAfter(k) :
                      ~(shown[1] < dropped[1])

\* C12 witness: a short update has replaced part of the display, so a line of
\* an earlier update of the operator is displayed next to the lines of a later
\* one while other lines of the earlier update are gone
C12_Witness ==
    \E k \in 1..Len(updates) :
        /\ \E a, b \in ShownAfter(k) : a[1] >= 1 /\ a[1] < b[1]
        /\ \E dropped \in WrittenAfter(k) \ ShownAfter(k) :
               \E a \in ShownAfter(k) : a[1] = dropped[1]

\* the operator has left the running state: modal returned FINISHED, or ESC
\* made it return CANCELLED
Exited == ret = "FINISHED" \/ EscCancelled

\* C13: while TIMER events keep coming, a running operator with N listed
\* faces returns FINISHED unless ESC arrives first, and it returns FINISHED
\* after exactly N processing steps and one more event; after every exit
\* (FINISHED or ESC) the timer and the draw handler are removed, the operator
\* is no modal handler any more, and no face is processed.
C13_FinishesAndCleansUp ==
    /\ (ret = "RUNNING_MODAL") ~> Exited
    /\ [](ret = "FINISHED"
            => /\ Len(evals) = Len(quad_faces)
               /\ current_face_index = Len(quad_faces)
               /\ ticks = Len(quad_faces) + 1)
    /\ [](ret = "RUNNING_MODAL" => (timer /\ draw_handle /\ modal_handler))
    /\ [](Exited => (~timer /\ ~draw_handle /\ ~modal_handler))
    /\ [][Exited => (evals' = evals /\ outcome' = outcome /\ bm_edges' = bm_edges)]_vars

\* C13 witness: two listed faces, FINISHED on the third timer event, with the
\* timer and the draw handler removed
C13_Witness ==
    /\ ret = "FINISHED"
    /\ Len(quad_faces) = 2
    /\ Len(evals) = 2
    /\ ticks = 3
    /\ ~timer /\ ~draw_handle
====
